---- MODULE Spec2Model ----
(***************************************************************************)
(* SPYSCALP (src/spyscalp.py): the operating-mode state machine of         *)
(* SpyscalpApp, its polling timer, poll_market_data and the widgets the    *)
(* poll and the mode watchers write.                                       *)
(*                                                                         *)
(* Every handler of the application is a plain synchronous `def` run on    *)
(* the single event loop.  The two Quote Source calls of poll_market_data  *)
(* (get_quote, get_option_chain) are blocking calls made on that loop, so  *)
(* a handler that polls is split at the blocking call: the step that       *)
(* issues the fetch (fetching /= "none" afterwards) and FetchReturn, which *)
(* renders the result and runs the rest of the calling handler.  While the *)
(* loop is blocked the only thing that can happen is that the operator     *)
(* presses keys, which wait in keyQueue until the loop is free again.      *)
(***************************************************************************)
EXTENDS Integers, Sequences, FiniteSets, TLC

\* ---------------------------------------------------------------- bounds
\* largest last / prev_close the market-data service reports (0 = no value)
MaxPrice == 1
\* largest strike price of an expiration
MaxStrike == 2
\* most option pairs the first expiration of a chain lists
MaxStrikes == 1
\* most key presses that wait while the event loop is blocked in a fetch
MaxPending == 1
\* longest option list update_options is called with on its own
MaxLen == 3
\* largest bid of an option record in such a list
MaxOptBid == 1
\* number of paths the DatabaseManager is asked to open
MaxPaths == 3

VARIABLES
    polling_timer,   \* "none" (before on_mount) | "paused" | "running"
    quote_provider,  \* "unset" (before init_provider) | "none" | "tasty"
    current_mode,    \* OperMode
    is_holding,      \* BOOLEAN
    stack,           \* the screen stack, active screen last
    composed,        \* screens whose widgets exist (pushed at least once)
    scrClass,        \* per installed screen: the set of mode-* CSS classes
    hbMode,          \* per screen: text of the header label #hb-mode
    hbQuote,         \* per screen: price in the header label #hb-quote
    tradeDisp,       \* trading screen: price/change/volume displays
    optTable,        \* trading screen: rows of #options-table
    fetching,        \* "none", or the caller of the poll blocked in a fetch
    keyQueue,        \* key presses waiting for the blocked event loop
    call,            \* the handler call in progress or last completed
    log,             \* what that call did so far, in order
    cycled,          \* history: action_mode has been called at least once
    dispPoll,        \* history: which poll the trading displays show
    optArg,          \* the list update_options is called with on its own
    connection,      \* DatabaseManager: the open connection's file, or None
    current_file,    \* DatabaseManager: path of the open database, or None
    files,           \* the paths at which a file exists
    dbResult         \* what the last DatabaseManager call returned

vars == <<polling_timer, quote_provider, current_mode, is_holding, stack,
          composed, scrClass, hbMode, hbQuote, tradeDisp, optTable,
          fetching, keyQueue, call, log, cycled, dispPoll, optArg,
          connection, current_file, files, dbResult>>

\* the state of the DatabaseManager and of the file system it looks at
dbVars == <<connection, current_file, files, dbResult>>

\* ------------------------------------------------------------- constants
INACTIVE == "INACTIVE"
SIMULATION == "SIMULATION"
LIVE == "LIVE"
OperMode == {INACTIVE, SIMULATION, LIVE}

Screens == {"main", "database", "trading", "debug"}
known_screens == <<"main", "database", "trading", "debug">>
ModeClasses == {"mode-inactive", "mode-simulation", "mode-simulation-hold",
                "mode-live", "mode-live-hold"}

\* the value a quote label shows before any poll ("SPY: $0.00" is not the
\* rendering of any float, f"{0.0}" being "0.0")
NoQuote == -1
HeaderBarQuote == NoQuote
HeaderBarMode == "INACTIVE"
InitialTradeDisp == [price |-> NoQuote, change |-> NoQuote, volume |-> 0]

\* the keys and buttons the operator uses (the database screen, a further
\* screen without trading widgets like the debug screen, is never opened)
Keys == {"mode", "qhold", "hold", "refresh", "back", "debug", "nav_trading"}
\* the key whose presses during a blocking fetch are followed: for any key,
\* being pressed during the fetch has the effect of being pressed once the
\* fetch has returned, which Press covers
QueuedKeys == {"mode"}
\* the volume and the option bid/ask the market-data service reports: passed
\* through to the displays and read by nothing else, so one value stands
\* for all
Volumes == {1}
Bids == {1}

ActiveScreen == stack[Len(stack)]
OnStack(s) == \E i \in 1..Len(stack) : stack[i] = s

\* ------------------------------------------------------------ Quote Source
\* what the SDK call get_market_data yields: an exception or a data object
RawQuotes ==
    [kind : {"data"}, last : 0..MaxPrice, prev_close : 0..MaxPrice,
     volume : Volumes]
    \cup {[kind |-> "error", last |-> 0, prev_close |-> 0, volume |-> 0]}

EmptyQuote ==
    [ok |-> FALSE, raised |-> FALSE, last |-> 0, change |-> 0, volume |-> 0]

\* TastyTradeQuoteProvider.get_quote: any exception is logged and {} returned;
\* raised says whether the call ends in an exception instead of a value,
\* which it never does
get_quote_Raises(raw) ==
    IF raw.kind = "error" THEN [EmptyQuote EXCEPT !.raised = TRUE]
    ELSE [EmptyQuote EXCEPT !.ok = TRUE, !.last = raw.last]
get_quote(raw) ==
    IF raw.kind = "error" THEN EmptyQuote
    ELSE [ok |-> TRUE, raised |-> FALSE,
          last |-> IF raw.last # 0 THEN raw.last ELSE 0,
          change |-> IF raw.last # 0 /\ raw.prev_close # 0
                     THEN raw.last - raw.prev_close ELSE 0,
          volume |-> IF raw.volume # 0 THEN raw.volume ELSE 0]

\* `if quote:` in poll_market_data: a dict is truthy iff it is not empty
QuoteTruthy_NoCheck(quote) == TRUE
QuoteTruthy(quote) == quote.ok

\* sequences over S of length lo..hi
SeqsOf(S, lo, hi) == UNION {[1..n -> S] : n \in lo..hi}

\* what NestedOptionChain.get / get_market_data_by_type yield: an exception,
\* no chain, a chain without expirations, or the strikes of the first
\* expiration with the market data of their symbols (md = 0: no data)
RawChains ==
    [kind : {"data"}, strikes : SeqsOf(1..MaxStrike, 1, MaxStrikes),
     md : Bids]
    \cup [kind : {"error", "nochains", "noexpirations"}, strikes : {<<>>},
          md : {0}]

OptionOf(strike, type, md) ==
    [strike |-> strike, type |-> type, bid |-> md, ask |-> md]

RECURSIVE OptionsOfStrikes(_, _)
OptionsOfStrikes(strikes, md) ==
    IF strikes = <<>> THEN <<>>
    ELSE <<OptionOf(Head(strikes), "CALL", md),
           OptionOf(Head(strikes), "PUT", md)>>
         \o OptionsOfStrikes(Tail(strikes), md)

NoChain == [kind |-> "nochains", strikes |-> <<>>, md |-> 0]

\* the outcomes of the option-chain fetch of one poll: any, when the poll
\* makes the call; otherwise the call is not made and nothing is drawn
ChainOutcomes(fetched) == IF fetched THEN RawChains ELSE {NoChain}

\* TastyTradeQuoteProvider.get_option_chain
get_option_chain(raw) ==
    IF raw.kind # "data" THEN <<>> ELSE OptionsOfStrikes(raw.strikes, raw.md)

\* ----------------------------------------------------------- TradingScreen
\* what a table cell shows for a side with no record ("-")
Dash == -1

Min(S) == CHOOSE x \in S : \A y \in S : x <= y

\* sorted(strikes.keys())
RECURSIVE sorted(_)
sorted(S) ==
    IF S = {} THEN <<>> ELSE <<Min(S)>> \o sorted(S \ {Min(S)})

\* strikes[s][type] after the grouping loop: the last record of that strike
\* and type in the list, None (<<>>) when there is none
GroupEntry_First(options, s, type) ==
    LET idx == {i \in 1..Len(options) :
                    options[i].strike = s /\ options[i].type = type}
    IN IF idx = {} THEN <<>>
       ELSE <<options[CHOOSE i \in idx : \A j \in idx : i <= j]>>
GroupEntry(options, s, type) ==
    LET idx == {i \in 1..Len(options) :
                    options[i].strike = s /\ options[i].type = type}
    IN IF idx = {} THEN <<>>
       ELSE <<options[CHOOSE i \in idx : \A j \in idx : j <= i]>>

RowOf(options, s) ==
    LET c == GroupEntry(options, s, "CALL")
        p == GroupEntry(options, s, "PUT")
    IN [callBid |-> IF c # <<>> THEN c[1].bid ELSE Dash,
        callAsk |-> IF c # <<>> THEN c[1].ask ELSE Dash,
        strike |-> s,
        putBid |-> IF p # <<>> THEN p[1].bid ELSE Dash,
        putAsk |-> IF p # <<>> THEN p[1].ask ELSE Dash]

\* TradingScreen.update_options: table.clear(), then one row per strike in
\* ascending order; the result is the new content of #options-table
update_options(options) ==
    LET keys == sorted({options[i].strike : i \in 1..Len(options)})
    IN [k \in 1..Len(keys) |-> RowOf(options, keys[k])]

\* TradingScreen.update_from_quote: the three displays of #quote-header
update_from_quote(quote) ==
    [price |-> quote.last, change |-> quote.change, volume |-> quote.volume]

\* ------------------------------------------------------------ SpyscalpApp
\* action_mode: the circular order of the modes
NextMode_Skip(mode) ==
    IF mode = INACTIVE THEN SIMULATION
    ELSE IF mode = SIMULATION THEN INACTIVE
    ELSE INACTIVE
NextMode(mode) ==
    IF mode = INACTIVE THEN SIMULATION
    ELSE IF mode = SIMULATION THEN LIVE
    ELSE INACTIVE

\* action_mode: `self.is_holding = False # Reset hold on mode change`
HoldAfterMode_Kept(holding) == holding
HoldAfterMode(holding) == FALSE

\* action_qhold / action_hold: the guard that rejects the toggle
HoldRejected_Never(mode) == FALSE
HoldRejected(mode) == mode = INACTIVE

\* update_all_headers: base_class and mode_text of the (mode, hold) pair
BaseClass(mode, holding) ==
    IF mode = INACTIVE THEN "mode-inactive"
    ELSE IF mode = SIMULATION
         THEN (IF ~holding THEN "mode-simulation" ELSE "mode-simulation-hold")
         ELSE (IF ~holding THEN "mode-live" ELSE "mode-live-hold")

ModeText(mode, holding) ==
    IF mode = INACTIVE THEN "INACTIVE"
    ELSE IF mode = SIMULATION
         THEN (IF ~holding THEN "SIMULATION" ELSE "SIMULATION HOLD")
         ELSE (IF ~holding THEN "LIVE TRADING" ELSE "TRADING HOLD")

\* update_all_headers, classes: remove_class(all five), add_class(base_class)
\* on every known screen
HeaderClasses_NoRemove(mode, holding) ==
    [s \in Screens |-> scrClass[s] \cup {BaseClass(mode, holding)}]
HeaderClasses(mode, holding) ==
    [s \in Screens |-> (scrClass[s] \ ModeClasses) \cup {BaseClass(mode, holding)}]

\* update_all_headers, text: scr.query("#hb-mode") finds the label of a
\* screen only once the screen has been composed
HeaderTexts(mode, holding, comp) ==
    [s \in Screens |-> IF s \in comp THEN ModeText(mode, holding) ELSE hbMode[s]]

\* watch_current_mode: what it does to the timer
TimerAfterMode_NoPause(mode, timer) ==
    IF timer = "none" THEN "none" ELSE "running"
TimerAfterMode(mode, timer) ==
    IF timer = "none" THEN "none"
    ELSE IF mode = INACTIVE THEN "paused" ELSE "running"

\* watch_current_mode: whether it calls poll_market_data
PollsOnModeChange_Never(mode, timer) == FALSE
PollsOnModeChange(mode, timer) == mode # INACTIVE /\ timer # "none"

\* poll_market_data: `if not self.quote_provider` returns before any fetch
ProviderReady_Always(provider) == TRUE
ProviderReady(provider) == provider = "tasty"

\* poll_market_data: `if self.screen == trading_screen`
TradingActive(stk) == stk # <<>> /\ stk[Len(stk)] = "trading"

\* poll_market_data: when trading_screen.update_from_quote(quote) is called
UpdatesTrading_AnyScreen(good, trading) == good
UpdatesTrading(good, trading) == good /\ trading

\* poll_market_data: when get_option_chain("SPY") is called
FetchesChain_Regardless(good, trading) == trading
FetchesChain(good, trading) == good /\ trading

\* poll_market_data: when trading_screen.update_options(options) is called
UpdatesOptions_AnyScreen(good, trading) == good
UpdatesOptions(good, trading) == good /\ trading

\* poll_market_data never touches the timer, whatever the poll ends in
TimerAfterPoll_StopOnFailure(failed, timer) ==
    IF failed /\ timer = "running" THEN "paused" ELSE timer
TimerAfterPoll(failed, timer) == timer

\* events of the log
Ev(kind, arg) == <<kind, arg>>

NotifyNoProvider == Ev("notify", "error: Market Data Error: Provider not initialized")
LogNoProvider == Ev("logging", "error: Market Data Error: Provider not initialized")
NotifyNoQuote == Ev("notify", "warning: Market Data Error: No Quote Received")
LogNoQuote == Ev("logging", "warning: Market Data Error: No Quote Received")
NotifyNoHold == Ev("notify", "warning: Cannot Hold in INACTIVE mode.")

\* what the Quote Source itself writes to the log when an SDK call raises
LogQuoteError == Ev("logging", "error: Error fetching quote for SPY")
LogChainError == Ev("logging", "error: Error fetching option chain for SPY")
get_quote_log(raw) == IF raw.kind = "error" THEN <<LogQuoteError>> ELSE <<>>
get_option_chain_log(raw) ==
    IF raw.kind = "error" THEN <<LogChainError>> ELSE <<>>

\* poll_market_data: `except Exception as e`, reached when a call made in
\* the try block ends in an exception
NotifyConnectionError == Ev("notify", "error: Connection Error")
LogConnectionError == Ev("logging", "error: Connection Error")
ConnectionErrorEvents == <<NotifyConnectionError, LogConnectionError>>

\* poll_market_data: the else branch of `if quote:`
EmptyQuoteEvents_Silent == <<>>
EmptyQuoteEvents == <<NotifyNoQuote, LogNoQuote>>

\* action_qhold / action_hold: `self.is_holding = not self.is_holding`
HoldAfterToggle_Stuck(holding) == holding
HoldAfterToggle(holding) == ~holding

\* poll_market_data up to its first blocking call: what it appends to the log
PollHead(caller, provider) ==
    IF ProviderReady(provider)
    THEN <<Ev("poll", caller), Ev("fetch", "quote")>>
    ELSE <<Ev("poll", caller), NotifyNoProvider, LogNoProvider>>

\* watch_current_mode's timer call, as a log entry
TimerEvents(mode, timer) ==
    IF timer = "none" THEN <<>>
    ELSE IF mode = INACTIVE THEN <<Ev("timer", "pause")>>
    ELSE <<Ev("timer", "resume")>>

\* the end of action_mode: is_holding = False (its watcher re-renders the
\* headers only when the value changes), then the notification
ModeTail(mode, holding) ==
    (IF HoldAfterMode(holding) # holding
     THEN <<Ev("headers", ModeText(mode, HoldAfterMode(holding)))>>
     ELSE <<>>)
    \o <<Ev("notify", "Mode changed")>>

NewCall(op) ==
    [op |-> op, preMode |-> current_mode, preHold |-> is_holding, done |-> TRUE,
     seq |-> call.seq]

\* history: the number of timer callbacks so far, modulo 2, when they are
\* counted (LiveSpec), so that one tick can be told from the next
TickSeq == 1 - call.seq

\* history: the poll a display shows, relative to the other display of the
\* trading screen: 0 the placeholder, 1 the last poll that rendered either
\* of them, 2 an earlier poll
PollShown(old, written, either) ==
    IF written THEN 1 ELSE IF either /\ old = 1 THEN 2 ELSE old

Mounted == polling_timer # "none"

\* DatabaseManager: the value of a field that holds nothing
None == 0
\* the paths a database is opened at; DefaultDb is the file that
\* initialize_default makes sure exists
Paths == 1..MaxPaths
DefaultDb == 1

\* DatabaseManager.__init__ and initialize_default, which opens nothing
DbStart ==
    /\ connection = None
    /\ current_file = None
    /\ files = {DefaultDb}
    /\ dbResult = [op |-> "init", path |-> None, ok |-> TRUE, msg |-> "",
                   before |-> None, found |-> FALSE, raised |-> FALSE]

\* SpyscalpApp after construction, all but the content of the options table
AppStart ==
    /\ polling_timer = "none"
    /\ quote_provider = "unset"
    /\ current_mode = INACTIVE
    /\ is_holding = FALSE
    /\ stack = <<>>
    /\ composed = {}
    /\ scrClass = [s \in Screens |-> {}]
    /\ hbMode = [s \in Screens |-> HeaderBarMode]
    /\ hbQuote = [s \in Screens |-> NoQuote]
    /\ tradeDisp = InitialTradeDisp
    /\ fetching = "none"
    /\ keyQueue = <<>>
    /\ call = [op |-> "init", preMode |-> INACTIVE, preHold |-> FALSE,
               done |-> TRUE, seq |-> 0]
    /\ log = <<>>
    /\ cycled = FALSE
    /\ dispPoll = [price |-> 0, options |-> 0]
    /\ DbStart

Init ==
    /\ AppStart
    /\ optTable = <<>>
    /\ optArg = <<>>

\* SpyscalpApp.on_mount: init_provider (credentials present and usable, or
\* not), the four screens installed, "main" pushed, update_header, and the
\* timer created paused
on_mount ==
    /\ ~Mounted
    /\ \E p \in {"none", "tasty"} : quote_provider' = p
    /\ stack' = <<"main">>
    /\ composed' = {"main"}
    /\ scrClass' = HeaderClasses(current_mode, is_holding)
    /\ hbMode' = HeaderTexts(current_mode, is_holding, {})
    /\ polling_timer' = "paused"
    /\ call' = NewCall("on_mount")
    /\ log' = <<Ev("headers", ModeText(current_mode, is_holding))>>
    /\ UNCHANGED <<current_mode, is_holding, hbQuote, tradeDisp, optTable,
                   fetching, keyQueue, cycled,
                   dispPoll, optArg, dbVars>>

\* the timer created by set_interval(5.0, self.poll_market_data) fires; n is
\* the number the history gives the callback
TimerCallback(n) ==
    /\ Mounted /\ fetching = "none"
    /\ polling_timer = "running"
    /\ fetching' = IF ProviderReady(quote_provider) THEN "tick" ELSE "none"
    /\ call' = [NewCall("tick") EXCEPT !.done = ~ProviderReady(quote_provider),
                                       !.seq = n]
    /\ log' = PollHead("tick", quote_provider)
    /\ polling_timer' = TimerAfterPoll(~ProviderReady(quote_provider),
                                       polling_timer)
    /\ UNCHANGED <<quote_provider, current_mode, is_holding,
                   stack, composed, scrClass, hbMode, hbQuote, tradeDisp,
                   optTable, keyQueue, cycled,
                   dispPoll, optArg, dbVars>>

Tick == TimerCallback(call.seq)

\* TradingScreen.action_refresh (key r): self.app.poll_market_data()
action_refresh(q) ==
    /\ fetching' = IF ProviderReady(quote_provider) THEN "refresh" ELSE "none"
    /\ call' = [NewCall("refresh") EXCEPT !.done = ~ProviderReady(quote_provider)]
    /\ log' = PollHead("refresh", quote_provider)
    /\ keyQueue' = q
    /\ polling_timer' = TimerAfterPoll(~ProviderReady(quote_provider),
                                       polling_timer)
    /\ UNCHANGED <<quote_provider, current_mode, is_holding,
                   stack, composed, scrClass, hbMode, hbQuote, tradeDisp,
                   optTable, cycled,
                   dispPoll, optArg, dbVars>>

\* SpyscalpApp.action_mode (F5) with the watchers its assignments run:
\* current_mode = next  -> watch_current_mode: update_all_headers, timer
\*                         pause / resume + poll_market_data
\* is_holding = False   -> watch_is_holding: update_all_headers
\* When the poll reaches get_quote the call blocks there (fetching = "mode")
\* and FetchReturn runs the rest.
action_mode(q) ==
    LET m == NextMode(current_mode)
        polls == PollsOnModeChange(m, polling_timer)
        blocks == polls /\ ProviderReady(quote_provider)
        head == <<Ev("headers", ModeText(m, is_holding))>>
                \o TimerEvents(m, polling_timer)
                \o (IF polls THEN PollHead("mode", quote_provider) ELSE <<>>)
    IN /\ current_mode' = m
       /\ polling_timer' =
            IF polls /\ ~blocks
            THEN TimerAfterPoll(TRUE, TimerAfterMode(m, polling_timer))
            ELSE TimerAfterMode(m, polling_timer)
       /\ cycled' = TRUE
       /\ keyQueue' = q
       /\ IF blocks
          THEN /\ is_holding' = is_holding
               /\ fetching' = "mode"
               /\ call' = [NewCall("mode") EXCEPT !.done = FALSE]
               /\ log' = head
          ELSE /\ is_holding' = HoldAfterMode(is_holding)
               /\ fetching' = "none"
               /\ call' = NewCall("mode")
               /\ log' = head \o ModeTail(m, is_holding)
       /\ scrClass' = HeaderClasses(m, is_holding')
       /\ hbMode' = HeaderTexts(m, is_holding', composed)
       /\ UNCHANGED <<quote_provider, stack, composed, hbQuote, tradeDisp,
                      optTable, dispPoll, optArg, dbVars>>

\* action_qhold (F3) and action_hold (F4): rejected in INACTIVE, otherwise
\* is_holding toggles and watch_is_holding re-renders the headers
ToggleHold(op, q) ==
    /\ keyQueue' = q
    /\ call' = NewCall(op)
    /\ IF HoldRejected(current_mode)
       THEN /\ log' = <<NotifyNoHold>>
            /\ UNCHANGED <<is_holding, scrClass, hbMode>>
       ELSE /\ is_holding' = HoldAfterToggle(is_holding)
            /\ scrClass' = HeaderClasses(current_mode, is_holding')
            /\ hbMode' = HeaderTexts(current_mode, is_holding', composed)
            /\ log' = <<Ev("headers", ModeText(current_mode, is_holding')),
                        Ev("notify", IF is_holding' THEN "Hold started"
                                     ELSE "Hold Cancelled")>>
    /\ UNCHANGED <<polling_timer, quote_provider, current_mode, stack,
                   composed, hbQuote, tradeDisp, optTable, fetching, cycled,
                   dispPoll, optArg, dbVars>>

action_qhold(q) == ToggleHold("qhold", q)
action_hold(q) == ToggleHold("hold", q)

\* push_screen(name): MainScreen.on_button_pressed (nav-to-db,
\* nav-to-trading) and SpyscalpApp.action_debug (F11); a screen is composed
\* with the HeaderBar defaults the first time it is pushed
PushScreen(op, name, q) ==
    /\ stack' = Append(stack, name)
    /\ composed' = composed \cup {name}
    /\ keyQueue' = q
    /\ call' = NewCall(op)
    /\ log' = <<>>
    /\ UNCHANGED <<polling_timer, quote_provider, current_mode, is_holding,
                   scrClass, hbMode, hbQuote, tradeDisp, optTable, fetching,
                   cycled,
                   dispPoll, optArg, dbVars>>

\* action_back of TradingScreen, DatabaseScreen and DebugScreen: pop_screen
action_back(q) ==
    /\ stack' = SubSeq(stack, 1, Len(stack) - 1)
    /\ keyQueue' = q
    /\ call' = NewCall("back")
    /\ log' = <<>>
    /\ UNCHANGED <<polling_timer, quote_provider, current_mode, is_holding,
                   composed, scrClass, hbMode, hbQuote, tradeDisp, optTable,
                   fetching, cycled,
                   dispPoll, optArg, dbVars>>

\* which binding or button exists on the active screen
Applicable(k) ==
    CASE k \in {"mode", "qhold", "hold"} -> TRUE
      [] k = "refresh" -> TradingActive(stack)
      [] k = "back" -> ActiveScreen # "main"
      [] k = "debug" -> ~OnStack("debug")
      [] k = "nav_trading" -> ActiveScreen = "main"

Handle(k, q) ==
    \/ k = "mode" /\ action_mode(q)
    \/ k = "qhold" /\ action_qhold(q)
    \/ k = "hold" /\ action_hold(q)
    \/ k = "refresh" /\ action_refresh(q)
    \/ k = "back" /\ action_back(q)
    \/ k = "debug" /\ PushScreen("debug", "debug", q)
    \/ k = "nav_trading" /\ PushScreen("nav_trading", "trading", q)

\* the operator presses a key while the event loop is free: handled at once
Press ==
    /\ Mounted /\ fetching = "none" /\ keyQueue = <<>>
    /\ \E k \in Keys : Applicable(k) /\ Handle(k, <<>>)

\* the operator presses a key while the loop is blocked in a fetch
Enqueue ==
    /\ fetching # "none"
    /\ Len(keyQueue) < MaxPending
    /\ \E k \in QueuedKeys : keyQueue' = Append(keyQueue, k)
    /\ UNCHANGED <<polling_timer, quote_provider, current_mode, is_holding,
                   stack, composed, scrClass, hbMode, hbQuote, tradeDisp,
                   optTable, fetching, call, log, cycled,
                   dispPoll, optArg, dbVars>>

\* the free loop takes the next waiting key; a key with no binding on the
\* active screen is dropped
Dispatch ==
    /\ Mounted /\ fetching = "none" /\ keyQueue # <<>>
    /\ IF Applicable(Head(keyQueue))
       THEN Handle(Head(keyQueue), Tail(keyQueue))
       ELSE /\ keyQueue' = Tail(keyQueue)
            /\ call' = NewCall("dropped")
            /\ log' = <<>>
            /\ UNCHANGED <<polling_timer, quote_provider, current_mode,
                           is_holding, stack, composed, scrClass, hbMode,
                           hbQuote, tradeDisp, optTable, fetching, cycled,
                   dispPoll, optArg, dbVars>>

\* the rest of poll_market_data once get_quote has returned, and then the
\* rest of the handler that called it.  The second blocking call,
\* get_option_chain, is made inside this step: between the two calls the
\* handler has written the header label and the price displays, but the
\* blocked loop neither repaints nor runs another handler, so no state in
\* between can be observed or acted on.
FetchReturn ==
    /\ fetching # "none"
    /\ \E rq \in RawQuotes :
       \E rc \in ChainOutcomes(FetchesChain(~get_quote(rq).raised
                                                /\ QuoteTruthy(get_quote(rq)),
                                            TradingActive(stack))) :
        LET quote == get_quote(rq)
            good == ~quote.raised /\ QuoteTruthy(quote)
            trading == TradingActive(stack)
            chain == FetchesChain(good, trading)
            toPrice == UpdatesTrading(good, trading)
            toTable == UpdatesOptions(good, trading)
            options == get_option_chain(rc)
            rendered ==
                <<Ev("quote", rq.kind)>> \o get_quote_log(rq)
                \o (IF good THEN <<Ev("render", "hb-quote")>> ELSE <<>>)
                \o (IF toPrice THEN <<Ev("render", "trading")>> ELSE <<>>)
                \o (IF chain
                    THEN <<Ev("fetch", "chain"), Ev("chain", rc.kind)>>
                         \o get_option_chain_log(rc)
                    ELSE <<>>)
                \o (IF toTable THEN <<Ev("render", "options")>> ELSE <<>>)
                \o (IF quote.raised THEN ConnectionErrorEvents
                    ELSE IF good THEN <<>> ELSE EmptyQuoteEvents)
        IN /\ hbQuote' = IF good
                         THEN [hbQuote EXCEPT ![ActiveScreen] = quote.last]
                         ELSE hbQuote
           /\ tradeDisp' = IF toPrice THEN update_from_quote(quote)
                           ELSE tradeDisp
           /\ optTable' = IF toTable THEN update_options(options)
                          ELSE optTable
           /\ dispPoll' =
                [price |-> PollShown(dispPoll.price, toPrice,
                                     toPrice \/ toTable),
                 options |-> PollShown(dispPoll.options, toTable,
                                       toPrice \/ toTable)]
           /\ polling_timer' = TimerAfterPoll(~good, polling_timer)
           /\ IF fetching = "mode"
              THEN /\ is_holding' = HoldAfterMode(is_holding)
                   /\ scrClass' = HeaderClasses(current_mode, is_holding')
                   /\ hbMode' = HeaderTexts(current_mode, is_holding', composed)
                   /\ log' = log \o rendered \o ModeTail(current_mode, is_holding)
              ELSE /\ log' = log \o rendered
                   /\ UNCHANGED <<is_holding, scrClass, hbMode>>
    /\ fetching' = "none"
    /\ call' = [call EXCEPT !.done = TRUE]
    /\ UNCHANGED <<quote_provider, current_mode, stack, composed, keyQueue,
                   cycled, optArg, dbVars>>

Next ==
    \/ on_mount
    \/ Tick
    \/ Press
    \/ Enqueue
    \/ Dispatch
    \/ FetchReturn

Spec == Init /\ [][Next]_vars

\* The same program with the timer callbacks counted and with the
\* scheduling the event loop gives: a blocking fetch returns (the SDK call
\* ends in a result or an exception), and the interval timer, an asyncio
\* task of its own, fires whenever the loop is free again, however often
\* key handlers have kept it busy in between.
LiveTick == TimerCallback(TickSeq)

LiveNext ==
    \/ on_mount
    \/ LiveTick
    \/ Press
    \/ Enqueue
    \/ Dispatch
    \/ FetchReturn

LiveSpec ==
    Init /\ [][LiveNext]_vars /\ SF_vars(LiveTick) /\ WF_vars(FetchReturn)

\* TradingScreen.update_options on its own: called once, with any list of
\* option records, on a table that is empty or holds the row of an earlier
\* list
OptionRecords ==
    {[strike |-> s, type |-> ty, bid |-> b, ask |-> b + 1] :
        s \in 1..MaxStrike, ty \in {"CALL", "PUT"}, b \in 0..MaxOptBid}

OptionLists == SeqsOf(OptionRecords, 0, MaxLen)

PrevTables ==
    {<<>>, update_options(<<OptionOf(MaxStrike, "CALL", MaxOptBid)>>)}

OptInit ==
    /\ AppStart
    /\ optTable \in PrevTables
    /\ optArg \in OptionLists

UpdateOptionsCall ==
    /\ call.op = "init"
    /\ optTable' = update_options(optArg)
    /\ call' = NewCall("update_options")
    /\ log' = <<Ev("render", "options")>>
    /\ UNCHANGED <<polling_timer, quote_provider, current_mode, is_holding,
                   stack, composed, scrClass, hbMode, hbQuote, tradeDisp,
                   fetching, keyQueue, cycled, dispPoll, optArg, dbVars>>

OptNext == UpdateOptionsCall

OptSpec == OptInit /\ [][OptNext]_vars

\* ------------------------------------------------------- DatabaseManager
\* the application's fields, which no DatabaseManager method touches
appVars ==
    <<polling_timer, quote_provider, current_mode, is_holding, stack,
      composed, scrClass, hbMode, hbQuote, tradeDisp, optTable, fetching,
      keyQueue, call, log, cycled, dispPoll, optArg>>

\* DatabaseManager.close: commit and close (their exceptions swallowed),
\* then both fields set to None; nothing to do without a connection
close_NoOp(field) == field
close(field) == None

\* what a call returned, with what it was called on: the path, whether a
\* file was there, whether the library raised, the connection before it
DbResult(op, path, ok, msg) ==
    [op |-> op, path |-> path, ok |-> ok, msg |-> msg, before |-> connection,
     found |-> path \in files, raised |-> msg = "exception"]

\* DatabaseManager.open_database(filepath): close(), then the file is
\* looked up and connected to; sqlite3.connect may raise
open_database(path) ==
    \E raises \in BOOLEAN :
        /\ IF path \notin files
           THEN /\ ~raises
                /\ connection' = close(connection)
                /\ current_file' = close(current_file)
                /\ dbResult' = DbResult("open_database", path, FALSE,
                                        "File not found")
           ELSE IF raises
           THEN /\ connection' = close(connection)
                /\ current_file' = close(current_file)
                /\ dbResult' = DbResult("open_database", path, FALSE,
                                        "exception")
           ELSE /\ connection' = path
                /\ current_file' = path
                /\ dbResult' = DbResult("open_database", path, TRUE,
                                        "Opened")
        /\ UNCHANGED <<files, appVars>>

\* DatabaseManager.save: commit on the open connection, which may raise
save ==
    /\ \E raises \in BOOLEAN :
        dbResult' =
            IF connection = None
            THEN DbResult("save", None, FALSE, "No database open")
            ELSE IF raises THEN DbResult("save", None, FALSE, "exception")
            ELSE DbResult("save", None, TRUE, "Saved")
    /\ UNCHANGED <<connection, current_file, files, appVars>>

\* DatabaseManager.close called on its own
close_database ==
    /\ connection' = IF connection # None THEN close(connection) ELSE connection
    /\ current_file' =
        IF connection # None THEN close(current_file) ELSE current_file
    /\ dbResult' = DbResult("close", None, TRUE, "")
    /\ UNCHANGED <<files, appVars>>

\* the file system changes under the manager: a file appears or goes away
CreateFile ==
    /\ \E p \in Paths \ files : files' = files \cup {p}
    /\ UNCHANGED <<connection, current_file, dbResult, appVars>>

RemoveFile ==
    /\ \E p \in files : files' = files \ {p}
    /\ UNCHANGED <<connection, current_file, dbResult, appVars>>

DbNext ==
    \/ \E p \in Paths : open_database(p)
    \/ save
    \/ close_database
    \/ CreateFile
    \/ RemoveFile

DbSpec == Init /\ [][DbNext]_vars

\* ================================================================ claims
\* what the claims read off a step or off the log of a call
HasEv(l, e) == \E i \in 1..Len(l) : l[i] = e
CountEv(l, e) == Cardinality({i \in 1..Len(l) : l[i] = e})
FirstEv(l, e) == Min({i \in 1..Len(l) : l[i] = e})
Fetches(l) == {i \in 1..Len(l) : l[i][1] = "fetch"}
Notifications(l) == {i \in 1..Len(l) : l[i][1] = "notify"}

\* the circular order the specification gives
Successor(mode) ==
    CASE mode = INACTIVE -> SIMULATION
      [] mode = SIMULATION -> LIVE
      [] mode = LIVE -> INACTIVE

\* a step in which the free event loop starts the handler `op`
Starts(op) == fetching = "none" /\ call'.op = op
\* a step in which the outstanding fetch returns and its result is handled
Returns == fetching # "none" /\ fetching' = "none"
\* a step in which key k is pressed while a fetch is outstanding
PressedDuringFetch(k) ==
    /\ fetching # "none" /\ fetching' # "none"
    /\ keyQueue' = Append(keyQueue, k)

\* the data every sink displays
sinks == <<hbQuote, tradeDisp, optTable>>

\* the mode the operator has commanded: current_mode advanced once per
\* cycleMode key that waits in the queue
RECURSIVE CommandedMode(_, _)
CommandedMode(mode, q) ==
    IF q = <<>> THEN mode
    ELSE CommandedMode(IF Head(q) = "mode" THEN Successor(mode) ELSE mode,
                       Tail(q))

\* C1: the mode is Inactive at process start; every cycleMode call moves the
\* mode to its successor in Inactive -> Simulation -> Live -> Inactive, and
\* the mode changes in no other step
C1_ModeCycles ==
    /\ current_mode = INACTIVE
    /\ [][/\ Starts("mode") => current_mode' = Successor(current_mode)
          /\ current_mode' # current_mode => Starts("mode")]_vars

C1_Witness ==
    /\ call.op = "mode" /\ call.done
    /\ call.preMode = LIVE /\ current_mode = INACTIVE

\* C2: HoldFlag is false once a cycleMode call has returned, whatever the
\* mode and HoldFlag were before it
C2_HoldResetByCycle ==
    (call.op = "mode" /\ call.done) => is_holding = FALSE

C2_Witness ==
    call.op = "mode" /\ call.done /\ call.preHold /\ ~is_holding

\* C3: toggleHold (F3 or F4) in Inactive changes neither HoldFlag nor the
\* mode (nor any header) and reports the InvalidTransition warning
C3_HoldRejectedInactive ==
    [][((Starts("qhold") \/ Starts("hold")) /\ current_mode = INACTIVE)
        => /\ UNCHANGED <<is_holding, current_mode, scrClass, hbMode,
                          polling_timer>>
           /\ log' = <<NotifyNoHold>>]_vars

C3_Witness ==
    /\ call.op \in {"qhold", "hold"} /\ call.preMode = INACTIVE
    /\ cycled /\ log = <<NotifyNoHold>> /\ ~is_holding

\* C4 (as claimed): once a cycleMode call has landed in Inactive, and until
\* the next cycleMode call, no fetch is issued and no sink's data changes
C4_NoFetchWhileInactive ==
    [][(cycled /\ current_mode = INACTIVE /\ current_mode' = INACTIVE)
        => (fetching' = "none" /\ UNCHANGED sinks)]_vars

\* C5 (as claimed): manual refresh in Inactive is a no-op: no fetch, no
\* notification, no sink changed
C5_RefreshInactiveNoOp ==
    [][(current_mode = INACTIVE /\ (Starts("refresh") \/ (Returns /\ fetching = "refresh")))
        => /\ fetching' = "none"
           /\ Fetches(log') = {} /\ Notifications(log') = {}
           /\ UNCHANGED sinks]_vars

\* C6 (as claimed): a cycleMode call that leaves Inactive resumes the timer
\* and performs exactly one immediate fetch
C6_OneImmediateFetch ==
    (call.op = "mode" /\ call.preMode = INACTIVE /\ call.done)
        => /\ polling_timer = "running"
           /\ CountEv(log, Ev("fetch", "quote")) = 1

\* C6 (amended): a cycleMode call that leaves Inactive resumes the timer and
\* then runs exactly one immediate poll inside the call itself, so before
\* any periodic tick; that poll issues exactly one quote fetch when the
\* Quote Source is initialised and none when it is not
C6_OneImmediatePoll ==
    (call.op = "mode" /\ call.preMode = INACTIVE)
        => /\ polling_timer = "running"
           /\ CountEv(log, Ev("timer", "resume")) = 1
           /\ CountEv(log, Ev("poll", "mode")) = 1
           /\ FirstEv(log, Ev("timer", "resume")) < FirstEv(log, Ev("poll", "mode"))
           /\ ~HasEv(log, Ev("poll", "tick"))
           /\ CountEv(log, Ev("fetch", "quote"))
                = (IF quote_provider = "tasty" THEN 1 ELSE 0)
           /\ ~call.done => fetching = "mode"

C6_Witness ==
    /\ call.op = "mode" /\ call.preMode = INACTIVE /\ call.done
    /\ quote_provider = "tasty" /\ HasEv(log, Ev("render", "hb-quote"))

\* C7 (as claimed): a cycleMode call triggers the immediate out-of-band
\* poll if it leaves Inactive, and only then a fetch: the calls made in
\* Simulation and in Live issue no fetch
C7_ImmediateFetchOnlyLeavingInactive ==
    (call.op = "mode" /\ call.done)
        => /\ call.preMode = INACTIVE => HasEv(log, Ev("poll", "mode"))
           /\ call.preMode # INACTIVE => Fetches(log) = {}

\* C8 (as claimed): a mode change commanded while a fetch is outstanding is
\* honoured at once, and when the commanded mode is Inactive the result of
\* that fetch reaches no sink
C8_StaleResultSuppressed ==
    [][/\ PressedDuringFetch("mode") => current_mode' = Successor(current_mode)
       /\ (Returns /\ CommandedMode(current_mode, keyQueue) = INACTIVE)
            => UNCHANGED sinks]_vars

\* C9: a poll whose quote fetch fails or comes back empty changes no
\* displayed quote and no displayed option chain
C9_EmptyQuoteKeepsDisplay ==
    [][(Returns /\ HasEv(log', Ev("quote", "error"))) => UNCHANGED sinks]_vars

C9_Witness ==
    /\ call.done /\ HasEv(log, Ev("quote", "error"))
    /\ TradingActive(stack)
    /\ hbQuote["trading"] = MaxPrice /\ tradeDisp.price = MaxPrice
    /\ optTable # <<>>

\* C10 (as claimed): a poll whose option-chain fetch fails or comes back
\* empty leaves the rows of the options table as they were
C10_EmptyChainKeepsTable ==
    [][(Returns /\ \E k \in {"error", "nochains", "noexpirations"} :
                        HasEv(log', Ev("chain", k)))
        => optTable' = optTable]_vars

\* the quote-display slots that exist: the header label of every composed
\* screen and, once the trading screen is composed, its price display
QuoteSlots ==
    {hbQuote[s] : s \in composed}
    \cup (IF "trading" \in composed THEN {tradeDisp.price} ELSE {})

\* C11 (as claimed): between polls no two mounted quote displays show quotes
\* of different polls: any two that show a quote at all show the same one
C11_NoPerSinkStaleness ==
    call.done => \A a, b \in QuoteSlots \ {NoQuote} : a = b

\* C12 (as claimed): once a cycleMode call has completed (and from then on,
\* between operations), the header of every composed screen shows the text
\* of the current (mode, HoldFlag) pair and every installed screen carries
\* exactly its colour class
C12_HeadersShowModeAndHold ==
    (cycled /\ call.done)
        => /\ \A s \in composed : hbMode[s] = ModeText(current_mode, is_holding)
           /\ \A s \in Screens :
                scrClass[s] \cap ModeClasses
                    = {BaseClass(current_mode, is_holding)}

\* C13: the price display and the options table of the trading screen
\* always show data of the same poll, or both still show the placeholder;
\* the header label of that screen shows the price of the same quote
C13_QuoteAndChainSamePoll ==
    /\ dispPoll.price = dispPoll.options
    /\ dispPoll.price = 0 => (tradeDisp = InitialTradeDisp /\ optTable = <<>>)
    /\ hbQuote["trading"] = tradeDisp.price

C13_Witness ==
    /\ dispPoll.price = 1 /\ optTable # <<>>
    /\ ActiveScreen = "debug" /\ call.done
    /\ hbQuote["debug"] \notin {NoQuote, tradeDisp.price}

\* a poll is in the log of the call
Polled(l) == \E i \in 1..Len(l) : l[i][1] = "poll"

\* C14 (as claimed): a poll with an initialised Quote Source issues one
\* quote fetch and then the option-chain fetch if and only if the trading
\* screen is active, whatever the quote fetch returned
C14_ChainFetchedIffTrading ==
    (Polled(log) /\ call.done /\ ProviderReady(quote_provider))
        => /\ CountEv(log, Ev("fetch", "quote")) = 1
           /\ CountEv(log, Ev("fetch", "chain"))
                = (IF TradingActive(stack) THEN 1 ELSE 0)

\* C14 (amended): a poll with an initialised Quote Source issues exactly
\* one quote fetch first, and then exactly one option-chain fetch if and
\* only if that quote fetch returned a quote and the trading screen is the
\* active screen; it issues no other fetch
C14_ChainFetchedIffQuoteAndTrading ==
    (Polled(log) /\ ProviderReady(quote_provider))
        => /\ CountEv(log, Ev("fetch", "quote")) = 1
           /\ Cardinality(Fetches(log)) - 1 = CountEv(log, Ev("fetch", "chain"))
           /\ Min(Fetches(log)) = FirstEv(log, Ev("fetch", "quote"))
           /\ CountEv(log, Ev("fetch", "chain"))
                = (IF /\ call.done
                      /\ HasEv(log, Ev("quote", "data"))
                      /\ TradingActive(stack)
                   THEN 1 ELSE 0)

C14_Witness ==
    /\ call.done /\ TradingActive(stack)
    /\ HasEv(log, Ev("fetch", "quote")) /\ HasEv(log, Ev("quote", "error"))
    /\ ~HasEv(log, Ev("fetch", "chain"))

\* C15: the options table, which only the trading screen has, is written
\* only by a poll that returns while the trading screen is the active
\* screen; no other step renders an option chain
C15_OptionsOnlyToActiveTrading ==
    [][/\ HasEv(log', Ev("render", "options"))
            => (Returns /\ TradingActive(stack) /\ TradingActive(stack'))
       /\ optTable' # optTable => HasEv(log', Ev("render", "options"))]_vars

C15_Witness ==
    /\ call.op = "tick" /\ call.done /\ TradingActive(stack)
    /\ HasEv(log, Ev("render", "options")) /\ Len(optTable) = MaxStrikes

\* C16: once the timer exists it is paused exactly when the mode is
\* Inactive and running exactly when the mode is Simulation or Live
C16_TimerFollowsMode ==
    Mounted => /\ polling_timer = "paused" <=> current_mode = INACTIVE
               /\ polling_timer = "running" <=> current_mode # INACTIVE

C16_Witness ==
    /\ call.op = "mode" /\ call.done /\ call.preMode = LIVE
    /\ polling_timer = "paused" /\ keyQueue = <<>>

\* a poll has ended without a quote: empty result or error of the fetch,
\* or Quote Source not initialised
FailedPoll ==
    /\ call.done /\ Polled(log)
    /\ HasEv(log, Ev("quote", "error")) \/ HasEv(log, NotifyNoProvider)

\* C17: while the mode stays Simulation or Live, a poll that ended without
\* a quote is eventually followed by a further timer callback
C17_PollingSurvivesFailure ==
    \A b \in {0, 1} :
        (FailedPoll /\ current_mode # INACTIVE /\ call.seq = b)
            ~> (current_mode = INACTIVE \/ call.seq # b)

C17_Witness ==
    /\ quote_provider = "none" /\ current_mode = LIVE
    /\ call.op = "tick" /\ call.seq = 0 /\ FailedPoll

\* the events of l that show something to the operator or to a sink
Renders(l) == {i \in 1..Len(l) : l[i][1] = "render"}

\* C18: a poll whose quote fetch comes back empty raises exactly one
\* "No Quote Received" notification and one log entry and leaves every
\* displayed quote as it was; a poll that gets a quote raises neither
C18_EmptyQuoteOneNotification ==
    [][Returns
        => /\ CountEv(log', NotifyNoQuote)
                = (IF HasEv(log', Ev("quote", "error")) THEN 1 ELSE 0)
           /\ CountEv(log', LogNoQuote) = CountEv(log', NotifyNoQuote)
           /\ HasEv(log', Ev("quote", "error"))
                => UNCHANGED <<hbQuote, tradeDisp>>]_vars

C18_Witness ==
    /\ call.op = "tick" /\ call.done
    /\ CountEv(log, NotifyNoQuote) = 1 /\ CountEv(log, LogNoQuote) = 1
    /\ hbQuote[ActiveScreen] = MaxPrice

\* C19: with the Quote Source not initialised, a poll reports the
\* "Provider not initialized" error exactly once (one notification, one log
\* entry), issues no fetch, writes no sink and does not touch the timer,
\* which is running after every timer tick and every mode-change poll
C19_NoProviderPoll ==
    [][(quote_provider' = "none" /\ Polled(log'))
        => /\ CountEv(log', NotifyNoProvider) = 1
           /\ CountEv(log', LogNoProvider) = 1
           /\ Fetches(log') = {} /\ Renders(log') = {}
           /\ fetching' = "none" /\ call'.done
           /\ UNCHANGED sinks
           /\ call'.op \in {"tick", "refresh"} => UNCHANGED polling_timer
           /\ call'.op \in {"tick", "mode"} => polling_timer' = "running"]_vars

C19_Witness ==
    /\ quote_provider = "none" /\ call.op = "tick"
    /\ log = <<Ev("poll", "tick"), NotifyNoProvider, LogNoProvider>>
    /\ polling_timer = "running" /\ current_mode = SIMULATION

\* C20: toggleHold (F3 or F4) in Simulation or Live flips HoldFlag and
\* nothing else of the polling: mode and timer unchanged, the timer
\* running, no poll, no fetch, no sink written
C20_HoldLeavesPollingAlone ==
    [][((Starts("qhold") \/ Starts("hold")) /\ current_mode # INACTIVE)
        => /\ is_holding' = ~is_holding
           /\ UNCHANGED <<current_mode, polling_timer, fetching, sinks>>
           /\ polling_timer' = "running"
           /\ ~Polled(log') /\ Fetches(log') = {}
           /\ ~HasEv(log', Ev("timer", "pause"))
           /\ ~HasEv(log', Ev("timer", "resume"))]_vars

C20_Witness ==
    /\ call.op = "hold" /\ call.preMode = LIVE /\ current_mode = LIVE
    /\ call.preHold /\ ~is_holding /\ polling_timer = "running"

\* the timer calls made so far in the call
TimerCalls(l) == {i \in 1..Len(l) : l[i][1] = "timer"}
\* the polls made so far in the call
Polls(l) == {i \in 1..Len(l) : l[i][1] = "poll"}

\* C21: a manual refresh made while the timer is running performs exactly
\* one poll, at once, and neither it nor the return of its fetch touches
\* the timer, the mode or HoldFlag
C21_RefreshLeavesTimerAlone ==
    [][((Starts("refresh") \/ (Returns /\ fetching = "refresh"))
            /\ polling_timer = "running")
        => /\ Cardinality(Polls(log')) = 1
           /\ HasEv(log', Ev("poll", "refresh"))
           /\ TimerCalls(log') = {}
           /\ UNCHANGED <<polling_timer, current_mode, is_holding>>]_vars

C21_Witness ==
    /\ call.op = "refresh" /\ call.done /\ polling_timer = "running"
    /\ call.preHold /\ is_holding /\ HasEv(log, Ev("quote", "error"))

\* C22: only cycleMode writes the mode, only cycleMode and toggleHold write
\* HoldFlag, and a poll, whatever its fetches yield, returns to its caller
\* and leaves mode, HoldFlag and timer as they were
C22_PollWritesNoModeState ==
    [][/\ current_mode' # current_mode => Starts("mode")
       /\ is_holding' # is_holding => call'.op \in {"mode", "qhold", "hold"}
       /\ polling_timer' # polling_timer
            => (Starts("mode") \/ Starts("on_mount"))
       /\ (Starts("tick") \/ Starts("refresh"))
            => UNCHANGED <<current_mode, is_holding, polling_timer>>
       /\ Returns
            => /\ call'.done /\ fetching' = "none"
               /\ UNCHANGED <<current_mode, polling_timer>>
               /\ fetching # "mode" => UNCHANGED is_holding]_vars

C22_Witness ==
    /\ call.op = "tick" /\ call.done /\ current_mode = LIVE /\ is_holding
    /\ polling_timer = "running" /\ HasEv(log, Ev("chain", "error"))

\* the notifications of l that report a problem (all but action_mode's
\* "Mode changed")
ErrorNotifications(l) ==
    {i \in Notifications(l) : l[i] # Ev("notify", "Mode changed")}

\* C23 (as claimed): a fetch of a poll that raises, be it the quote fetch
\* or the option-chain fetch, is logged and notified to the operator, and
\* what was displayed stays displayed
C23_FetchErrorsNotifiedAndRetained ==
    [][Returns
        => /\ HasEv(log', Ev("quote", "error"))
                => /\ HasEv(log', LogQuoteError)
                   /\ ErrorNotifications(log') # {}
                   /\ UNCHANGED sinks
           /\ HasEv(log', Ev("chain", "error"))
                => /\ HasEv(log', LogChainError)
                   /\ ErrorNotifications(log') # {}
                   /\ optTable' = optTable]_vars

\* C24: a quote fetch that raises is shown to the operator exactly as an
\* empty result is (the "No Quote Received" notification and nothing else,
\* no sink written); it differs only in the log, which also holds the Quote
\* Source's own error entry
C24_RaisedQuoteLikeEmpty ==
    [][(Returns /\ HasEv(log', Ev("quote", "error")))
        => /\ UNCHANGED sinks
           /\ {log'[i] : i \in ErrorNotifications(log')} = {NotifyNoQuote}
           /\ CountEv(log', NotifyNoQuote) = 1
           /\ Renders(log') = {}
           /\ HasEv(log', LogNoQuote) /\ HasEv(log', LogQuoteError)]_vars

C24_Witness ==
    /\ call.op = "refresh" /\ call.done
    /\ HasEv(log, LogQuoteError) /\ HasEv(log, NotifyNoQuote)
    /\ tradeDisp.price = MaxPrice /\ optTable # <<>>

\* what a row shows for one side, given the list: the bid/ask of the last
\* record of that strike and type, the dash when the list has none
SideShown(L, s, ty, bid, ask) ==
    LET I == {i \in 1..Len(L) : L[i].strike = s /\ L[i].type = ty}
    IN IF I = {} THEN bid = Dash /\ ask = Dash
       ELSE \E i \in I : /\ \A j \in I : j <= i
                          /\ bid = L[i].bid /\ ask = L[i].ask

\* C25: after update_options(L) the table holds exactly one row per strike
\* occurring in L, whatever it held before, in strictly ascending strike
\* order; each row shows the bid/ask of the last Call and the last Put
\* record of its strike, and a dash for a side without record
C25_UpdateOptionsIsTheView ==
    call.op = "update_options"
        => /\ Len(optTable)
                = Cardinality({optArg[i].strike : i \in 1..Len(optArg)})
           /\ {optTable[k].strike : k \in 1..Len(optTable)}
                = {optArg[i].strike : i \in 1..Len(optArg)}
           /\ \A j, k \in 1..Len(optTable) :
                j < k => optTable[j].strike < optTable[k].strike
           /\ \A k \in 1..Len(optTable) :
                /\ SideShown(optArg, optTable[k].strike, "CALL",
                             optTable[k].callBid, optTable[k].callAsk)
                /\ SideShown(optArg, optTable[k].strike, "PUT",
                             optTable[k].putBid, optTable[k].putAsk)

C25_Witness ==
    /\ call.op = "update_options" /\ Len(optArg) = MaxLen
    /\ optArg[1].strike > optArg[2].strike
    /\ \E i, j \in 1..Len(optArg) :
        /\ i < j /\ optArg[i].strike = optArg[j].strike
        /\ optArg[i].type = optArg[j].type /\ optArg[i].bid # optArg[j].bid
    /\ \E k \in 1..Len(optTable) : optTable[k].putBid = Dash

\* C26: whenever the mode is Inactive, HoldFlag is false
C26_NoHoldWhileInactive ==
    current_mode = INACTIVE => is_holding = FALSE

C26_Witness ==
    /\ call.op = "mode" /\ call.done /\ call.preMode = LIVE /\ call.preHold
    /\ current_mode = INACTIVE /\ ~is_holding

\* the header texts that show a hold
HoldTexts == {ModeText(SIMULATION, TRUE), ModeText(LIVE, TRUE)}

\* C27 (as claimed): everything a cycleMode call does after advancing the
\* mode sees HoldFlag = false: no header broadcast of the call renders a
\* hold text, no header shows one during the call, and HoldFlag is false
\* while the call's immediate fetch is outstanding
C27_HoldResetBeforeSideEffects ==
    call.op = "mode"
        => /\ \A i \in 1..Len(log) :
                log[i][1] = "headers" => log[i][2] \notin HoldTexts
           /\ \A s \in composed : hbMode[s] \notin HoldTexts
           /\ fetching = "mode" => ~is_holding

C29_OneModeClassPerScreen ==
    Mounted
        => \A s \in Screens :
            /\ Cardinality(scrClass[s] \cap ModeClasses) = 1
            /\ BaseClass(current_mode, is_holding) \in scrClass[s]
            /\ current_mode = INACTIVE => "mode-inactive" \in scrClass[s]

C29_Witness ==
    /\ call.op = "qhold" /\ call.preHold /\ ~is_holding
    /\ current_mode = SIMULATION /\ "database" \notin composed
    /\ scrClass["database"] = {"mode-simulation"}

\* C30: an open_database call that fails (no file at the path, or the
\* connect raises) returns (False, message) and leaves no database open,
\* whatever was open before; a call that succeeds leaves the database of
\* its path open; the connection is None exactly when current_file is
C30_FailedOpenLeavesNoDatabase ==
    /\ connection = None <=> current_file = None
    /\ (dbResult.op = "open_database" /\ (~dbResult.found \/ dbResult.raised))
            => (~dbResult.ok /\ connection = None /\ current_file = None)
    /\ (dbResult.op = "open_database" /\ dbResult.ok)
            => (connection = dbResult.path /\ current_file = dbResult.path)

C30_Witness ==
    /\ dbResult.op = "open_database" /\ dbResult.raised
    /\ dbResult.before # None
    /\ connection = None /\ current_file = None

====
